---- MODULE Spec2Model ----
(***************************************************************************)
(* The camera store (class CameraStore, src/network_diagnostics.sh lines   *)
(* 132-683): the camera list, the health records, the list cache, the      *)
(* refreshes (loadCameras) and the probe cycles (checkCamerasHealth) in    *)
(* flight, and the throttled notification timer.                           *)
(*                                                                         *)
(* JavaScript runs one task at a time, so every action below is one task:  *)
(* the code from a call, a timer or a network completion up to the next    *)
(* await of a network request.                                             *)
(***************************************************************************)
EXTENDS Integers, Sequences, FiniteSets, Bags, TLC

\* ------------------------------------------------------------------ bounds
\* requests in flight at once: the refreshes (loadCameras calls), each
\* waiting for its list or config requests, and the probe requests
MaxInFlight == 3
\* cap of a health record's errorCount: a failing probe outcome is not
\* delivered beyond it
MaxErr == 4

\* subscribe calls made
MaxSubscriptions == 2

\* the values of Date.now() that are told apart
MaxNow == 3

\* ------------------------------------------------------- program constants
\* the consecutive-failure threshold of checkCamerasHealth
ErrorThreshold == 3
\* the size of a group of config requests in loadCameras
ChunkSize == 5
\* MAX_RETRIES: the retries fetchWithRetry starts with
MaxRetries == 3

\* the path names a consumer adds and removes, in the order the media
\* server lists them
AllPaths == <<"cam1">>

CamIds == {AllPaths[i] : i \in 1..Len(AllPaths)}

\* the outcomes of a list request, after fetchWithRetry's retries:
\* "ok" a 2xx response with a JSON body; "non2xx" a non-2xx response whose
\* body is JSON without items (an error object); "error" a network error, a
\* timeout or a body that response.json() cannot parse
ListOutcomes == {"ok", "non2xx", "error"}

\* the outcomes of one config request: "ok" a config object with its name;
\* "error" the request or its parse threw (the synthetic record of line 287);
\* "noname" a JSON body without a name (an error object of a non-2xx response)
ConfigOutcomes == {"ok", "error", "noname"}

\* the outcomes of a probe: "ok" 2xx, "notfound" 404, "other" any other
\* response, "throw" a network error or the 5 s timeout
ProbeOutcomes == {"ok", "notfound", "other", "throw"}

\* the outcomes of the POST of addCamera and removeCamera, after
\* fetchWithRetry's retries: "ok" 2xx, "non2xx", "error" thrown
PostOutcomes == {"ok", "non2xx", "error"}

VARIABLES
    server,              \* the paths configured on the media server
    cameras,             \* this.cameras: a sequence of camera objects
    healthStatus,        \* this.healthStatus: camera id -> record, or NoHealth
    cache,               \* this.cache entry 'cameras_list'
    isLoading,           \* this.isLoading
    abortController,     \* this.abortController: "undefined", "live", "aborted"
    healthCheckInterval, \* this.healthCheckInterval is set
    notifyTimeout,       \* this.notifyTimeout is set
    loads,               \* the loadCameras calls in flight, oldest first
    probes,              \* the probe requests in flight (a bag)
    listeners,           \* this.listeners: a sequence of listener functions
    hardRun,             \* history: consecutive hard-failure probe outcomes
    throwRun,            \* history: consecutive thrown probe outcomes
    newestInFlight,      \* history: the refresh started last is in flight
    subscriptions,       \* history: the number of subscribe calls made
    unsubscribed,        \* history: listeners whose unsubscribe has been called
    invoked,             \* history: the listeners the last timer callback ran
    timers,              \* history: notification timers set and not yet fired
    coalesced,           \* history: notifyListeners calls the timer absorbed
    returned,            \* history: what the last addCamera/removeCamera gave
    lastCall,            \* history: the toggle operation called in the last step
    now,                 \* Date.now(), in ticks
    lastSeen,            \* the lastSeen field of the camera with each id
    known,               \* history: the camera list at the start of each refresh
    request,             \* a fetchWithRetry call or a probe fetch, by attempts
    unnotified,          \* history: listeners not called since the last change
    panel                \* the state of the PanelMode component

vars == <<server, cameras, healthStatus, cache, isLoading, abortController,
          healthCheckInterval, notifyTimeout, loads, probes, listeners,
          hardRun, throwRun, newestInFlight, subscriptions, unsubscribed,
          invoked, timers, coalesced, returned, lastCall, now, lastSeen,
          known, request, unnotified, panel>>

\* ----------------------------------------------------------------- helpers
Min(a, b) == IF a < b THEN a ELSE b

\* no entry in this.healthStatus
NoHealth == [status |-> "none", errorCount |-> 0]

\* no entry 'cameras_list' in this.cache
NoCache == [present |-> FALSE, data |-> <<>>, expired |-> FALSE]

\* a setCache that stores the camera list the store has when the refresh
\* ends, before the new list is assigned; C37_CacheEntryIsTheCameraList
\* tells it from lines 265-266 and 298-319
setCacheBefore(data) == [present |-> TRUE, data |-> cameras, expired |-> FALSE]

\* setCache('cameras_list', data): a fresh entry
setCache(data) == [present |-> TRUE, data |-> data, expired |-> FALSE]

\* this.cameras.find(c => c.id === id) as an index, 0 when there is none
Find(cams, id) ==
    IF \E i \in 1..Len(cams) : cams[i].id = id
    THEN CHOOSE i \in 1..Len(cams) :
            /\ cams[i].id = id
            /\ \A j \in 1..(i - 1) : cams[j].id # id
    ELSE 0

\* the status getCameras() reports for id, "absent" when it is not listed
StatusOf(cams, id) ==
    IF Find(cams, id) = 0 THEN "absent" ELSE cams[Find(cams, id)].status

\* this.healthStatus[id] || { status: 'checking', lastCheck: 0, errorCount: 0 }
CurrentHealth(id) ==
    IF healthStatus[id].status = "none"
    THEN [status |-> "checking", errorCount |-> 0]
    ELSE healthStatus[id]

\* A probe holds the camera object it was started for. While the list that
\* object belongs to is still this.cameras the probe is live and reads the
\* object at its index; once the list has been replaced the object is out
\* of the store's reach and keeps the id and status it had then.
CapturedId(p) == IF p.stale THEN p.id ELSE cameras[p.idx].id

CapturedStatus(p) == IF p.stale THEN p.status ELSE cameras[p.idx].status

\* a probe after this.cameras has been assigned a new array
Stale(p) ==
    IF p.stale THEN p
    ELSE [idx |-> 0, stale |-> TRUE, id |-> cameras[p.idx].id,
          status |-> cameras[p.idx].status]

\* the probes after this.cameras has been assigned a new array
RECURSIVE MarkStale(_)
MarkStale(ps) ==
    IF DOMAIN ps = {} THEN EmptyBag
    ELSE LET p == CHOOSE p \in DOMAIN ps : TRUE
             rest == [q \in DOMAIN ps \ {p} |-> ps[q]]
             one == [q \in {Stale(p)} |-> ps[p]]
         IN  one (+) MarkStale(rest)

\* this.cameras.map(async (camera) => ...): one probe per camera object
NewProbes(cams) ==
    SetToBag({[idx |-> i, stale |-> FALSE, id |-> "-", status |-> "-"]
              : i \in 1..Len(cams)})

\* the requests in flight
InFlight(ls, ps) == Len(ls) + BagCardinality(ps)

\* -------------------------------------------------------------------- Init
\* a refresh in flight at its list request
ListRequest(caller) ==
    [pc |-> "list", caller |-> caller, items |-> <<>>, done |-> 0,
     configs |-> <<>>]

\* no fetch being followed
NoRequest == [kind |-> "none", retries |-> 0, log |-> <<>>, result |-> "none"]

\* the constructor, with the paths srv on the media server and names the
\* path names it can hold: loadCameras() up to its list request, and the
\* interval
Constructed(names, srv) ==
    /\ server = srv
    /\ cameras = <<>>
    /\ healthStatus = [id \in names |-> NoHealth]
    /\ cache = NoCache
    /\ isLoading = TRUE
    /\ abortController = "live"
    /\ healthCheckInterval = TRUE
    /\ notifyTimeout = FALSE
    /\ loads = <<ListRequest("load")>>
    /\ probes = EmptyBag
    /\ hardRun = [id \in CamIds |-> 0]
    /\ throwRun = [id \in CamIds |-> 0]
    /\ newestInFlight = TRUE
    /\ listeners = <<>>
    /\ subscriptions = 0
    /\ unsubscribed = {}
    /\ invoked = <<>>
    /\ timers = 0
    /\ coalesced = 0
    /\ returned = "none"
    /\ lastCall = "none"
    /\ now = 1
    /\ lastSeen = [id \in names |-> 0]
    /\ known = <<<<>>>>
    /\ request = NoRequest
    /\ unnotified = {}
    /\ panel = [mounted |-> FALSE, initializing |-> FALSE, cameras |-> <<>>,
                cameraStatuses |-> [id \in names |-> "none"]]

Init == Constructed(CamIds, AllPaths)

\* ------------------------------------------------------------- loadCameras
\* a notifyListeners that sets the timer and does not keep its id in the
\* field; C16_OneTimerOneRound tells it from lines 662-664
notifyListenersUnrecorded(pending) == FALSE

\* notifyListeners(): arms the timer unless one is pending
notifyListeners(pending) == TRUE

\* loadCameras from "this.isLoading = true" to the list request: the flag,
\* the abort of the previous controller and the new controller
StartLoad(caller) ==
    /\ InFlight(loads, probes) < MaxInFlight
    /\ isLoading' = TRUE
    /\ abortController' = "live"
    /\ loads' = Append(loads, ListRequest(caller))

\* a cache lookup that ignores the expiry of the entry;
\* C12_CacheShortCircuits tells it from lines 196-203
CacheHitAnyAge == cache.present

\* getCached('cameras_list'): the data of an entry that has not expired
CacheHit == cache.present /\ ~cache.expired

\* loadCameras(forceRefresh), called by a consumer of the store
LoadCameras(force) ==
    IF isLoading /\ ~force
    THEN UNCHANGED <<server, cameras, healthStatus, cache, isLoading,
                    abortController, healthCheckInterval, notifyTimeout,
                    loads, probes>>
    ELSE IF ~force /\ CacheHit
    THEN /\ cameras' = cache.data
         /\ probes' = IF cache.data = cameras THEN probes ELSE MarkStale(probes)
         /\ notifyTimeout' = notifyListeners(notifyTimeout)
         /\ UNCHANGED <<server, healthStatus, cache, isLoading,
                        abortController, healthCheckInterval, loads>>
    ELSE /\ StartLoad("load")
         /\ cache' = IF force THEN cache ELSE NoCache
         /\ UNCHANGED <<server, cameras, healthStatus, healthCheckInterval,
                        notifyTimeout, probes>>

\* forceRefreshCameraStatus() up to the list request of its loadCameras(true)
forceRefreshCameraStatus ==
    /\ healthStatus' = [id \in CamIds |-> NoHealth]
    /\ StartLoad("forceStatus")
    /\ UNCHANGED <<server, cameras, cache, healthCheckInterval, notifyTimeout,
                   probes>>

\* loads without its i-th element
Without(i) == SubSeq(loads, 1, i - 1) \o SubSeq(loads, i + 1, Len(loads))

\* the end of the loadCameras call loads[i]: the camera list and cache it
\* leaves, its finally block, and the continuation of the caller
\* (forceRefreshCameraStatus goes on to checkCamerasHealth).
\* replaced: this.cameras has been assigned a new array.
Finished(i, cams, cch, replaced) ==
    LET ps == IF replaced THEN MarkStale(probes) ELSE probes
        check == loads[i].caller = "forceStatus" /\ Len(cams) > 0
    IN  /\ cameras' = cams
        /\ cache' = cch
        /\ isLoading' = FALSE
        /\ notifyTimeout' = notifyListeners(notifyTimeout)
        /\ loads' = Without(i)
        /\ IF check
           THEN /\ InFlight(Without(i), ps) + Len(cams) <= MaxInFlight
                /\ probes' = ps (+) NewProbes(cams)
           ELSE probes' = ps
        /\ UNCHANGED <<server, healthStatus, abortController,
                       healthCheckInterval>>

\* chunkArray(items, 5)[k], for the group that starts after `done` items
Chunk(items, done) == SubSeq(items, done + 1, Min(done + ChunkSize, Len(items)))

\* the list request of the refresh loads[i] settles; a 2xx response lists
\* the paths the server has then
ListResponse(i, outcome) ==
    /\ loads[i].pc = "list"
    /\ IF outcome = "error"
       THEN Finished(i, cameras, cache, FALSE)
       ELSE IF outcome = "non2xx" \/ server = <<>>
       THEN Finished(i, <<>>, setCache(<<>>), TRUE)
       ELSE IF abortController = "aborted"
       THEN Finished(i, cameras, cache, FALSE)
       ELSE /\ loads' = [loads EXCEPT ![i].pc = "config", ![i].items = server]
            /\ UNCHANGED <<server, cameras, healthStatus, cache, isLoading,
                           abortController, healthCheckInterval,
                           notifyTimeout, probes>>

\* a map callback that gives every camera the default isActive;
\* C23_MergeKeepsKnownFields tells it from lines 301-302
BuildCameraDefaults(config) ==
    [id |-> config.name,
     status |-> IF config.kind = "error" THEN "error"
                ELSE IF healthStatus[config.name].status = "none"
                THEN "checking"
                ELSE healthStatus[config.name].status,
     isActive |-> TRUE,
     errorCount |-> healthStatus[config.name].errorCount]

\* the camera built from one config (the map callback of lines 300-316)
BuildCamera(config) ==
    LET existing == Find(cameras, config.name)
    IN  [id |-> config.name,
         status |-> IF config.kind = "error" THEN "error"
                    ELSE IF healthStatus[config.name].status = "none"
                    THEN "checking"
                    ELSE healthStatus[config.name].status,
         isActive |-> IF existing = 0 THEN TRUE ELSE cameras[existing].isActive,
         errorCount |-> healthStatus[config.name].errorCount]

\* allConfigs.filter(config => config && config.name).map(...)
Transform(configs) ==
    LET named == SelectSeq(configs, LAMBDA c : c.kind # "noname")
    IN  [k \in 1..Len(named) |-> BuildCamera(named[k])]

\* the config requests of the current group of the refresh loads[i] have all
\* settled (Promise.all), with the outcome res[name] for each path of the group
ChunkSettled(i, res) ==
    LET l == loads[i]
        chunk == Chunk(l.items, l.done)
        configs == l.configs \o
                   [k \in 1..Len(chunk) |->
                       [name |-> chunk[k], kind |-> res[chunk[k]]]]
        done == l.done + Len(chunk)
    IN  /\ l.pc = "config"
        /\ DOMAIN res = {chunk[k] : k \in 1..Len(chunk)}
        /\ IF done < Len(l.items) /\ abortController # "aborted"
           THEN /\ loads' = [loads EXCEPT ![i].done = done,
                                          ![i].configs = configs]
                /\ UNCHANGED <<server, cameras, healthStatus, cache, isLoading,
                               abortController, healthCheckInterval,
                               notifyTimeout, probes>>
           ELSE IF abortController = "aborted"
           THEN Finished(i, cameras, cache, FALSE)
           ELSE Finished(i, Transform(configs), setCache(Transform(configs)),
                         TRUE)

\* ------------------------------------------------------- checkCamerasHealth
\* the interval callback of startHealthMonitoring: checkCamerasHealth()
\* up to its probe requests
StartHealthCheck ==
    /\ healthCheckInterval
    /\ IF Len(cameras) = 0
       THEN UNCHANGED probes
       ELSE /\ InFlight(loads, probes) + Len(cameras) <= MaxInFlight
            /\ probes' = probes (+) NewProbes(cameras)
    /\ UNCHANGED <<server, cameras, healthStatus, cache, isLoading,
                   abortController, healthCheckInterval, notifyTimeout, loads>>

\* newStatus of a probe that got a response (lines 373-381)
ResponseStatus(id, outcome) ==
    IF outcome = "ok" THEN "online"
    ELSE IF outcome = "notfound"
    THEN (IF healthStatus[id].status = "online" THEN "online" ELSE "checking")
    ELSE "offline"

\* a response count that takes only a 2xx or a 404 into account and leaves
\* the other responses uncounted; C8_SameCounter tells it from line 386
ResponseErrorCountUncounted(id, outcome) ==
    IF outcome = "ok" THEN 0
    ELSE IF outcome = "notfound" THEN CurrentHealth(id).errorCount + 1
    ELSE CurrentHealth(id).errorCount

\* errorCount of a probe that got a response (line 386)
ResponseErrorCount(id, outcome) ==
    IF outcome = "ok" THEN 0 ELSE CurrentHealth(id).errorCount + 1

\* errorCount of a probe that threw (line 405)
ThrowErrorCount(id) == CurrentHealth(id).errorCount + 1

\* a thrown probe's status with the error threshold one lower;
\* C6_ErrorEntered tells it from lines 408-414
ThrowStatusEarly(id) ==
    IF ThrowErrorCount(id) >= ErrorThreshold - 1 THEN "error"
    ELSE IF CurrentHealth(id).status = "online" THEN "online"
    ELSE "checking"

\* newStatus of a probe that threw (lines 408-414)
ThrowStatus(id) ==
    IF ThrowErrorCount(id) >= ErrorThreshold THEN "error"
    ELSE IF CurrentHealth(id).status = "online" THEN "online"
    ELSE "checking"

\* the health record a probe of camera id writes (lines 388-392, 416-420)
HealthRecord(id, outcome) ==
    IF outcome = "throw"
    THEN [status |-> ThrowStatus(id), errorCount |-> ThrowErrorCount(id)]
    ELSE [status |-> ResponseStatus(id, outcome),
          errorCount |-> ResponseErrorCount(id, outcome)]

\* the status handed to updateCameraStatus (lines 397-400, 423)
AppliedStatus(id, outcome) ==
    LET rec == HealthRecord(id, outcome)
    IN  IF /\ outcome # "throw"
           /\ rec.status = "offline"
           /\ rec.errorCount < ErrorThreshold
        THEN "checking"
        ELSE rec.status

\* the guard of the status update: camera.status !== newStatus, read from
\* the camera object the probe holds (lines 395, 422)
StatusDiffers(p, outcome) ==
    CapturedStatus(p) # HealthRecord(CapturedId(p), outcome).status

\* a status update that lists the camera when the list does not have it;
\* C13_ProbeNeverRestoresCamera tells it from lines 431-440
updateCameraStatusOrAdd(id, status, rec) ==
    LET i == Find(cameras, id)
    IN  IF i = 0
        THEN Append(cameras, [id |-> id, status |-> status, isActive |-> TRUE,
                              errorCount |-> rec.errorCount])
        ELSE IF cameras[i].status # status
        THEN [cameras EXCEPT ![i].status = status,
                             ![i].errorCount = rec.errorCount]
        ELSE cameras

\* a status update that writes the status to every camera of the list;
\* C26_ProbesAreIndependent tells it from lines 432-436
updateCameraStatusOfAll(id, status, rec) ==
    [k \in 1..Len(cameras) |->
        [cameras[k] EXCEPT !.status = status, !.errorCount = rec.errorCount]]

\* updateCameraStatus(id, status), called after the health record rec of id
\* has been written: the camera list it leaves
updateCameraStatus(id, status, rec) ==
    LET i == Find(cameras, id)
    IN  IF i # 0 /\ cameras[i].status # status
        THEN [cameras EXCEPT ![i].status = status,
                             ![i].errorCount = rec.errorCount]
        ELSE cameras

\* the continuation of the map callback of the probe p, with rec the health
\* record it stores (lines 388-401, 416-424)
ProbeWrites(p, outcome, rec) ==
    LET id == CapturedId(p)
        cams == IF StatusDiffers(p, outcome)
                THEN updateCameraStatus(id, AppliedStatus(id, outcome), rec)
                ELSE cameras
    IN  /\ BagIn(p, probes)
        /\ healthStatus' = [healthStatus EXCEPT ![id] = rec]
        /\ cameras' = cams
        /\ cache' = IF cams # cameras THEN NoCache ELSE cache
        /\ notifyTimeout' = IF cams # cameras
                            THEN notifyListeners(notifyTimeout)
                            ELSE notifyTimeout
        /\ probes' = probes (-) SetToBag({p})
        /\ UNCHANGED <<server, isLoading, abortController,
                       healthCheckInterval, loads>>

\* one probe request settles: the continuation of the map callback
ProbeSettle(p, outcome) ==
    LET rec == HealthRecord(CapturedId(p), outcome)
    IN  /\ rec.errorCount <= MaxErr
        /\ ProbeWrites(p, outcome, rec)

\* ------------------------------------------------- addCamera, removeCamera
\* server with the path name added, in the order of AllPaths
WithPath(name) ==
    SelectSeq(AllPaths,
              LAMBDA n : n = name \/ \E k \in 1..Len(server) : server[k] = n)

\* server without the path name
WithoutPath(name) == SelectSeq(server, LAMBDA n : n # name)

\* the POST of an addCamera({name, ...}) call settles: on 2xx the server has
\* the path and the call goes on to loadCameras(true); otherwise it
\* returns false
addCamera(name, outcome) ==
    /\ IF outcome = "ok"
       THEN /\ server' = WithPath(name)
            /\ StartLoad("mutation")
       ELSE UNCHANGED <<server, isLoading, abortController, loads>>
    /\ UNCHANGED <<cameras, healthStatus, cache, healthCheckInterval,
                   notifyTimeout, probes>>

\* the POST of a removeCamera(id) call settles: on 2xx the server has dropped
\* the path, the health record is deleted and the call goes on to
\* loadCameras(true); otherwise it returns false
removeCamera(id, outcome) ==
    /\ IF outcome = "ok"
       THEN /\ server' = WithoutPath(id)
            /\ healthStatus' = [healthStatus EXCEPT ![id] = NoHealth]
            /\ StartLoad("mutation")
       ELSE UNCHANGED <<server, healthStatus, isLoading, abortController,
                        loads>>
    /\ UNCHANGED <<cameras, cache, healthCheckInterval, notifyTimeout, probes>>

\* ------------------------------------------------------------ other steps
\* one call of a listener by the timer callback
Invocation(l, throwers) == [listener |-> l, threw |-> l \in throwers]

\* a forEach without the try/catch around the listener call: the first
\* listener that throws ends it; C17_ThrowingListenerIsIsolated tells it
\* from lines 665-671
RECURSIVE DeliverUncaught(_, _)
DeliverUncaught(ls, throwers) ==
    IF ls = <<>> THEN [invoked |-> <<>>, escaped |-> FALSE]
    ELSE IF Head(ls) \in throwers
    THEN [invoked |-> <<Invocation(Head(ls), throwers)>>, escaped |-> TRUE]
    ELSE LET rest == DeliverUncaught(Tail(ls), throwers)
         IN  [invoked |-> <<Invocation(Head(ls), throwers)>> \o rest.invoked,
              escaped |-> rest.escaped]

\* this.listeners.forEach(listener => { try { listener() } catch ... }) for
\* listeners of which those in throwers throw: the listeners called, in
\* order, and whether an exception leaves the forEach
RECURSIVE Deliver(_, _)
Deliver(ls, throwers) ==
    IF ls = <<>> THEN [invoked |-> <<>>, escaped |-> FALSE]
    ELSE LET rest == Deliver(Tail(ls), throwers)
         IN  [invoked |-> <<Invocation(Head(ls), throwers)>> \o rest.invoked,
              escaped |-> rest.escaped]

\* the notification timer fires (the callback of lines 664-673); the timer
\* field is reset after the forEach, when no exception has left it
NotifyFire(throwers) ==
    LET round == Deliver(listeners, throwers)
    IN  /\ notifyTimeout
        /\ notifyTimeout' = round.escaped
        /\ invoked' = round.invoked
        /\ UNCHANGED <<server, cameras, healthStatus, cache, isLoading,
                       abortController, healthCheckInterval, loads, probes,
                       listeners>>

\* time passes beyond the expires of the cache entry (line 198)
CacheExpire ==
    /\ CacheHit
    /\ cache' = [cache EXCEPT !.expired = TRUE]
    /\ UNCHANGED <<server, cameras, healthStatus, isLoading, abortController,
                   healthCheckInterval, notifyTimeout, loads, probes>>

\* toggleCamera(id)
toggleCamera(id) ==
    LET i == Find(cameras, id)
    IN  /\ IF i = 0
           THEN UNCHANGED <<cameras, cache, notifyTimeout>>
           ELSE /\ cameras' = [cameras EXCEPT ![i].isActive = ~@]
                /\ cache' = NoCache
                /\ notifyTimeout' = notifyListeners(notifyTimeout)
        /\ UNCHANGED <<server, healthStatus, isLoading, abortController,
                       healthCheckInterval, loads, probes>>

\* the id lists a consumer passes to toggleMultipleCameras
IdLists == UNION {[1..n -> CamIds] : n \in 0..2}

\* ids.forEach(id => ...) of toggleMultipleCameras: the camera list it leaves
RECURSIVE ToggleEach(_, _)
ToggleEach(cams, ids) ==
    IF ids = <<>> THEN cams
    ELSE LET i == Find(cams, Head(ids))
         IN  ToggleEach(IF i = 0 THEN cams
                        ELSE [cams EXCEPT ![i].isActive = ~@],
                        Tail(ids))

\* an end of the toggle operations that invalidates and notifies whether or
\* not a camera was changed; C19_TogglesAreLocal tells it from the
\* if (changed) of lines 575-578, 591-594 and 607-610
IfChangedOrNot(changed) ==
    /\ cache' = NoCache
    /\ notifyTimeout' = notifyListeners(notifyTimeout)
    /\ UNCHANGED <<server, healthStatus, isLoading, abortController,
                   healthCheckInterval, loads, probes>>

\* the end of toggleMultipleCameras, stopAllCameras and
\* startAllOnlineCameras: if (changed) { invalidateCache(); notifyListeners() }
IfChanged(changed) ==
    /\ cache' = IF changed THEN NoCache ELSE cache
    /\ notifyTimeout' = IF changed THEN notifyListeners(notifyTimeout)
                        ELSE notifyTimeout
    /\ UNCHANGED <<server, healthStatus, isLoading, abortController,
                   healthCheckInterval, loads, probes>>

\* toggleMultipleCameras(ids)
toggleMultipleCameras(ids) ==
    /\ cameras' = ToggleEach(cameras, ids)
    /\ IfChanged(\E k \in 1..Len(ids) : Find(cameras, ids[k]) # 0)

\* stopAllCameras()
stopAllCameras ==
    /\ cameras' = [k \in 1..Len(cameras) |->
                      [cameras[k] EXCEPT !.isActive = FALSE]]
    /\ IfChanged(\E k \in 1..Len(cameras) : cameras[k].isActive)

\* startAllOnlineCameras()
startAllOnlineCameras ==
    /\ cameras' = [k \in 1..Len(cameras) |->
                      IF cameras[k].status = "online"
                      THEN [cameras[k] EXCEPT !.isActive = TRUE]
                      ELSE cameras[k]]
    /\ IfChanged(\E k \in 1..Len(cameras) :
                    cameras[k].status = "online" /\ ~cameras[k].isActive)

\* --------------------------------------------------- subscribe, unsubscribe
\* Every subscribe call of the panel passes a function of its own (the
\* effect creates handleCamerasChange anew each time it runs); the model
\* names the function by the number of the call.
subscribe ==
    /\ subscriptions < MaxSubscriptions
    /\ subscriptions' = subscriptions + 1
    /\ listeners' = Append(listeners, subscriptions + 1)
    /\ UNCHANGED <<server, cameras, healthStatus, cache, isLoading,
                   abortController, healthCheckInterval, notifyTimeout,
                   loads, probes, unsubscribed, invoked>>

\* this.listeners.indexOf(listener), 1-based; 0 stands for JavaScript's -1
IndexOf(ls, l) ==
    IF \E k \in 1..Len(ls) : ls[k] = l
    THEN CHOOSE k \in 1..Len(ls) :
            ls[k] = l /\ \A j \in 1..(k - 1) : ls[j] # l
    ELSE 0

\* ls.splice(index, 1) for an index from the end (index < 0) or from the
\* start (index > 0) of the array
Splice(ls, index) ==
    LET at == IF index < 0 THEN Len(ls) + 1 + index ELSE index
    IN  IF at < 1 \/ at > Len(ls) THEN ls
        ELSE SubSeq(ls, 1, at - 1) \o SubSeq(ls, at + 1, Len(ls))

\* the body of the function subscribe(l) returned, with the index < 0
\* treated like any other index (no test before the splice);
\* C18_UnsubscribeRemovesOnlyItsListener tells it from lines 618-621
RemovedUnchecked(ls, l) ==
    Splice(ls, IF IndexOf(ls, l) = 0 THEN -1 ELSE IndexOf(ls, l))

\* the body of the function subscribe(l) returned: the listeners it leaves
Removed(ls, l) ==
    IF IndexOf(ls, l) > 0 THEN Splice(ls, IndexOf(ls, l)) ELSE ls

\* a call of the function that the l-th subscribe call returned
unsubscribe(l) ==
    /\ l \in 1..subscriptions
    /\ listeners' = Removed(listeners, l)
    /\ unsubscribed' = unsubscribed \cup {l}
    /\ UNCHANGED <<server, cameras, healthStatus, cache, isLoading,
                   abortController, healthCheckInterval, notifyTimeout,
                   loads, probes, subscriptions, invoked>>

\* destroy(): cleanup() and the reset of the store's collections
destroy ==
    /\ abortController' = IF abortController = "live" THEN "aborted"
                          ELSE abortController
    /\ healthCheckInterval' = FALSE
    /\ cameras' = <<>>
    /\ healthStatus' = [id \in CamIds |-> NoHealth]
    /\ cache' = NoCache
    /\ probes' = MarkStale(probes)
    /\ listeners' = <<>>
    /\ UNCHANGED <<server, isLoading, notifyTimeout, loads>>

\* ----------------------------------------------------------------- history
\* History variables record what has happened; no action of the store reads
\* them. hardRun[id] counts the hard-failure outcomes (a thrown probe or a
\* response that is neither 2xx nor 404) of the probes of id since the last
\* success, 404s neither counted nor resetting; throwRun[id] counts the
\* probes of id that threw since the last probe of id that did not, or since
\* the health history was last cleared. Both stop at ErrorThreshold.
\* newestInFlight: no refresh has started since the one at the end of loads.
RunAfter(run, id, outcome, counted, skipped) ==
    [run EXCEPT ![id] = IF outcome \in counted THEN Min(@ + 1, ErrorThreshold)
                        ELSE IF outcome \in skipped THEN @
                        ELSE 0]

NoHistory == UNCHANGED <<hardRun, throwRun, newestInFlight>>

\* a step that no subscriber takes part in
NoSubscribers ==
    UNCHANGED <<listeners, subscriptions, unsubscribed, invoked, unnotified,
                panel>>

\* a step whose notifyListeners calls are not recorded
NoTimerHistory == UNCHANGED <<timers, coalesced>>

\* a step whose caller is not recorded
NoCall == UNCHANGED lastCall

\* a step in which the clock, the lastSeen fields, the lists known at the
\* start of the refreshes and the attempts of a fetch are not followed
NoDetail == UNCHANGED <<now, lastSeen, known, request>>

\* a step of the store of which nothing is recorded
Quiet ==
    /\ NoHistory
    /\ NoSubscribers
    /\ NoTimerHistory
    /\ NoCall
    /\ NoDetail
    /\ UNCHANGED returned

\* a refresh has started
RecordStart ==
    /\ newestInFlight' = (Len(loads') > Len(loads) \/ newestInFlight)
    /\ NoSubscribers
    /\ NoTimerHistory
    /\ NoCall
    /\ NoDetail
    /\ UNCHANGED <<hardRun, returned>>

\* the refresh loads[i] has taken a step
RecordLoadStep(i) ==
    /\ newestInFlight' = (newestInFlight
                          /\ (Len(loads') = Len(loads) \/ i < Len(loads)))
    /\ NoSubscribers
    /\ NoTimerHistory
    /\ NoCall
    /\ NoDetail
    /\ UNCHANGED <<hardRun, throwRun, returned>>

\* a probe has settled
RecordProbe(p, outcome) ==
    /\ hardRun' = RunAfter(hardRun, CapturedId(p), outcome,
                           {"other", "throw"}, {"notfound"})
    /\ throwRun' = RunAfter(throwRun, CapturedId(p), outcome, {"throw"}, {})
    /\ NoSubscribers
    /\ NoTimerHistory
    /\ NoCall
    /\ NoDetail
    /\ UNCHANGED <<newestInFlight, returned>>

\* the refresh loads[i] has been superseded: a refresh started after it
Superseded(i) == i < Len(loads) \/ ~newestInFlight

\* -------------------------------------------------------------------- Next
\* The store in operation: refreshes, probe cycles and cache expiry.
Next ==
    \/ \E force \in BOOLEAN : LoadCameras(force) /\ Quiet
    \/ forceRefreshCameraStatus /\ Quiet
    \/ \E i \in 1..Len(loads), outcome \in ListOutcomes :
          ListResponse(i, outcome) /\ Quiet
    \/ \E i \in 1..Len(loads) :
          \E ids \in SUBSET CamIds : \E res \in [ids -> ConfigOutcomes] :
             ChunkSettled(i, res) /\ Quiet
    \/ StartHealthCheck /\ Quiet
    \/ \E p \in DOMAIN probes, outcome \in ProbeOutcomes :
          ProbeSettle(p, outcome) /\ Quiet
    \/ CacheExpire /\ Quiet

Spec == Init /\ [][Next]_vars

\* The same steps with the history recorded.
NextHistory ==
    \/ \E force \in BOOLEAN :
          LoadCameras(force) /\ RecordStart /\ UNCHANGED throwRun
    \/ /\ forceRefreshCameraStatus
       /\ RecordStart
       /\ throwRun' = [id \in CamIds |-> 0]
    \/ \E i \in 1..Len(loads), outcome \in ListOutcomes :
          ListResponse(i, outcome) /\ RecordLoadStep(i)
    \/ \E i \in 1..Len(loads) :
          \E ids \in SUBSET CamIds : \E res \in [ids -> ConfigOutcomes] :
             ChunkSettled(i, res) /\ RecordLoadStep(i)
    \/ StartHealthCheck /\ Quiet
    \/ \E p \in DOMAIN probes, outcome \in ProbeOutcomes :
          ProbeSettle(p, outcome) /\ RecordProbe(p, outcome)
    \/ CacheExpire /\ Quiet

SpecHistory == Init /\ [][NextHistory]_vars

\* ------------------------------------------- add, remove and toggle calls
\* addCamera and removeCamera without the catch block of lines 508-511 and
\* 548-551: C20_MutationsResolveToBoolean tells it from the code
ResolvedUncaught(outcome, pending) ==
    IF outcome = "ok" THEN pending
    ELSE IF outcome = "non2xx" THEN "false"
    ELSE "throw"

\* what an addCamera or removeCamera call has resolved to when its POST has
\* settled with a failure (the return false of the non-2xx response and of
\* the catch block); a 2xx response leaves the call pending on loadCameras
Resolved(outcome, pending) ==
    IF outcome = "ok" THEN pending ELSE "false"

\* the loadCameras(true) of an addCamera or removeCamera call returns, and
\* the call returns true
RecordReturn(i) ==
    returned' = IF /\ Len(loads') < Len(loads)
                   /\ loads[i].caller = "mutation"
                THEN "true"
                ELSE returned

\* a step with nothing recorded but the value returned
Unobserved ==
    NoHistory /\ NoSubscribers /\ NoTimerHistory /\ NoCall /\ NoDetail

\* The store with probe cycles and a consumer that removes cameras.
NextMutations ==
    \/ \E i \in 1..Len(loads), outcome \in ListOutcomes :
          ListResponse(i, outcome) /\ RecordReturn(i) /\ Unobserved
    \/ \E i \in 1..Len(loads) :
          \E ids \in SUBSET CamIds : \E res \in [ids -> ConfigOutcomes] :
             ChunkSettled(i, res) /\ RecordReturn(i) /\ Unobserved
    \/ StartHealthCheck /\ Quiet
    \/ \E p \in DOMAIN probes, outcome \in ProbeOutcomes :
          ProbeSettle(p, outcome) /\ Quiet
    \/ \E id \in CamIds, outcome \in PostOutcomes :
          /\ removeCamera(id, outcome)
          /\ returned' = Resolved(outcome, returned)
          /\ Unobserved

SpecMutations == Init /\ [][NextMutations]_vars

\* The store with a consumer that adds and removes cameras, and what the
\* calls return.
NextReturns ==
    \/ \E i \in 1..Len(loads), outcome \in ListOutcomes :
          ListResponse(i, outcome) /\ RecordReturn(i) /\ Unobserved
    \/ \E i \in 1..Len(loads) :
          \E ids \in SUBSET CamIds : \E res \in [ids -> ConfigOutcomes] :
             ChunkSettled(i, res) /\ RecordReturn(i) /\ Unobserved
    \/ \E name \in CamIds, outcome \in PostOutcomes :
          /\ addCamera(name, outcome)
          /\ returned' = Resolved(outcome, returned)
          /\ Unobserved
    \/ \E id \in CamIds, outcome \in PostOutcomes :
          /\ removeCamera(id, outcome)
          /\ returned' = Resolved(outcome, returned)
          /\ Unobserved

SpecReturns == Init /\ [][NextReturns]_vars

\* a step of the store between the calls of the consumer
Internal ==
    /\ NoHistory
    /\ NoSubscribers
    /\ NoTimerHistory
    /\ NoDetail
    /\ UNCHANGED returned
    /\ lastCall' = "none"

\* a call of the operation op by the consumer
Called(op) ==
    /\ NoHistory
    /\ NoSubscribers
    /\ NoTimerHistory
    /\ NoDetail
    /\ UNCHANGED returned
    /\ lastCall' = op

\* The store with a consumer that toggles cameras.
NextToggles ==
    \/ \E i \in 1..Len(loads), outcome \in ListOutcomes :
          ListResponse(i, outcome) /\ Internal
    \/ \E i \in 1..Len(loads) :
          \E ids \in SUBSET CamIds : \E res \in [ids -> ConfigOutcomes] :
             ChunkSettled(i, res) /\ Internal
    \/ StartHealthCheck /\ Internal
    \/ \E p \in DOMAIN probes, outcome \in ProbeOutcomes :
          ProbeSettle(p, outcome) /\ Internal
    \/ \E id \in CamIds : toggleCamera(id) /\ Called("toggleCamera")
    \/ \E ids \in IdLists :
          toggleMultipleCameras(ids) /\ Called("toggleMultipleCameras")
    \/ stopAllCameras /\ Called("stopAllCameras")
    \/ startAllOnlineCameras /\ Called("startAllOnlineCameras")

SpecToggles == Init /\ [][NextToggles]_vars

\* ------------------------------------------------- subscribers and the timer
\* notifyListeners() has been called (called), or not: a call with no timer
\* pending sets one, a call with a timer pending is absorbed by it
RecordNotify(called) ==
    /\ timers' = IF called /\ ~notifyTimeout THEN timers + 1 ELSE timers
    /\ coalesced' = IF ~called THEN coalesced
                    ELSE IF ~notifyTimeout THEN 0
                    ELSE Min(coalesced + 1, 2)

\* a step of the store alone, with its notifyListeners calls recorded
Notifying(called) ==
    /\ RecordNotify(called)
    /\ NoHistory
    /\ NoSubscribers
    /\ NoCall
    /\ NoDetail
    /\ UNCHANGED returned

\* a subscribe or unsubscribe call
Subscribing ==
    /\ NoHistory
    /\ NoTimerHistory
    /\ NoCall
    /\ NoDetail
    /\ UNCHANGED <<returned, unnotified, panel>>

\* the timer callback has run
Fired ==
    /\ timers' = timers - 1
    /\ UNCHANGED <<coalesced, subscriptions, unsubscribed, returned,
                   unnotified, panel>>
    /\ NoHistory
    /\ NoCall
    /\ NoDetail

\* The store with subscribers: the first refresh, toggles, subscribe and
\* unsubscribe calls, and the notification timer.
NextNotify ==
    \/ \E i \in 1..Len(loads), outcome \in ListOutcomes :
          ListResponse(i, outcome) /\ Notifying(Len(loads') < Len(loads))
    \/ \E i \in 1..Len(loads) :
          \E ids \in SUBSET CamIds : \E res \in [ids -> ConfigOutcomes] :
             ChunkSettled(i, res) /\ Notifying(Len(loads') < Len(loads))
    \/ \E id \in CamIds :
          toggleCamera(id) /\ Notifying(Find(cameras, id) # 0)
    \/ subscribe /\ Subscribing
    \/ \E l \in 1..MaxSubscriptions : unsubscribe(l) /\ Subscribing
    \/ \E throwers \in SUBSET (1..MaxSubscriptions) :
          NotifyFire(throwers) /\ Fired

SpecNotify == Init /\ [][NextNotify]_vars

\* The store with a consumer that refreshes and toggles, the expiry of the
\* cache and the notification timer.
NextCache ==
    \/ \E force \in BOOLEAN :
          /\ LoadCameras(force)
          /\ Notifying(~force /\ ~isLoading /\ CacheHit)
    \/ \E i \in 1..Len(loads), outcome \in ListOutcomes :
          ListResponse(i, outcome) /\ Notifying(Len(loads') < Len(loads))
    \/ \E i \in 1..Len(loads) :
          \E ids \in SUBSET CamIds : \E res \in [ids -> ConfigOutcomes] :
             ChunkSettled(i, res) /\ Notifying(Len(loads') < Len(loads))
    \/ CacheExpire /\ Notifying(FALSE)
    \/ \E id \in CamIds :
          toggleCamera(id) /\ Notifying(Find(cameras, id) # 0)
    \/ NotifyFire({}) /\ Fired

SpecCache == Init /\ [][NextCache]_vars

\* ------------------------------------------------------------ adding a camera
\* the store constructed while the media server has no path
InitEmpty == Constructed(CamIds, <<>>)

\* The store with a consumer that adds cameras and forces refreshes.
NextAdd ==
    \/ LoadCameras(TRUE) /\ Quiet
    \/ \E i \in 1..Len(loads), outcome \in ListOutcomes :
          ListResponse(i, outcome) /\ RecordReturn(i) /\ Unobserved
    \/ \E i \in 1..Len(loads) :
          \E ids \in SUBSET CamIds : \E res \in [ids -> ConfigOutcomes] :
             ChunkSettled(i, res) /\ RecordReturn(i) /\ Unobserved
    \/ \E name \in CamIds, outcome \in PostOutcomes :
          /\ addCamera(name, outcome)
          /\ returned' = Resolved(outcome, returned)
          /\ Unobserved

SpecAdd == InitEmpty /\ [][NextAdd]_vars

\* ------------------------------------------------- a store with two cameras
\* two paths on the media server, in the order it lists them
PairPaths == <<"cam1", "cam2">>

PairIds == {PairPaths[i] : i \in 1..Len(PairPaths)}

InitPair == Constructed(PairIds, PairPaths)

\* the updates a consumer passes to updateCamera: a Partial<Camera> with one
\* of the fields id, status and isActive
Updates ==
    [field : {"id"}, value : PairIds]
    \cup [field : {"status"}, value : {"online", "offline"}]
    \cup [field : {"isActive"}, value : BOOLEAN]

\* Object.assign(camera, { ...updates, lastSeen: ... })
Assign(camera, updates) ==
    IF updates.field = "id" THEN [camera EXCEPT !.id = updates.value]
    ELSE IF updates.field = "status"
    THEN [camera EXCEPT !.status = updates.value]
    ELSE [camera EXCEPT !.isActive = updates.value]

\* updateCamera(id, updates)
updateCamera(id, updates) ==
    LET i == Find(cameras, id)
    IN  /\ IF i = 0
           THEN UNCHANGED <<cameras, cache, notifyTimeout>>
           ELSE /\ cameras' = [cameras EXCEPT ![i] = Assign(@, updates)]
                /\ cache' = NoCache
                /\ notifyTimeout' = notifyListeners(notifyTimeout)
        /\ UNCHANGED <<server, healthStatus, isLoading, abortController,
                       healthCheckInterval, loads, probes>>

\* The store with two paths on the media server and a consumer that forces
\* refreshes and updates cameras.
NextPair ==
    \/ LoadCameras(TRUE) /\ Quiet
    \/ \E i \in 1..Len(loads), outcome \in ListOutcomes :
          ListResponse(i, outcome) /\ Quiet
    \/ \E i \in 1..Len(loads) :
          \E ids \in SUBSET PairIds : \E res \in [ids -> ConfigOutcomes] :
             ChunkSettled(i, res) /\ Quiet
    \/ \E id \in PairIds, updates \in Updates :
          updateCamera(id, updates) /\ Quiet

SpecPair == InitPair /\ [][NextPair]_vars

\* The store with two paths on the media server and its probe cycles.
NextProbes ==
    \/ \E i \in 1..Len(loads), outcome \in ListOutcomes :
          ListResponse(i, outcome) /\ Quiet
    \/ \E i \in 1..Len(loads) :
          \E ids \in SUBSET PairIds : \E res \in [ids -> ConfigOutcomes] :
             ChunkSettled(i, res) /\ Quiet
    \/ StartHealthCheck /\ Quiet
    \/ \E p \in DOMAIN probes, outcome \in ProbeOutcomes :
          ProbeSettle(p, outcome) /\ Quiet

SpecProbes == InitPair /\ [][NextProbes]_vars

\* ------------------------------------------------ groups of config requests
\* six paths on the media server: a group of five and a group of one
BatchPaths == <<"cam1", "cam2", "cam3", "cam4", "cam5", "cam6">>

BatchIds == {BatchPaths[i] : i \in 1..Len(BatchPaths)}

InitBatch == Constructed(BatchIds, BatchPaths)

\* the paths of the group of config requests the refresh l is waiting for
Group(l) ==
    IF l.pc = "config"
    THEN {Chunk(l.items, l.done)[k] : k \in 1..Len(Chunk(l.items, l.done))}
    ELSE {}

\* the config requests issued and not yet settled: those of the current
\* group of every refresh in flight (chunk.map at line 278 issues the whole
\* group at once)
RECURSIVE Outstanding(_)
Outstanding(ls) ==
    IF ls = <<>> THEN 0
    ELSE Cardinality(Group(Head(ls))) + Outstanding(Tail(ls))

\* The store with six paths on the media server and a consumer that forces
\* refreshes; the config requests of a group all succeed or all throw.
NextBatch ==
    \/ LoadCameras(TRUE) /\ Quiet
    \/ \E i \in 1..Len(loads), outcome \in ListOutcomes :
          ListResponse(i, outcome) /\ Quiet
    \/ \E i \in 1..Len(loads), kind \in {"ok", "error"} :
          ChunkSettled(i, [id \in Group(loads[i]) |-> kind]) /\ Quiet

SpecBatch == InitBatch /\ [][NextBatch]_vars

\* ------------------------------------------------------------ fetchWithRetry
\* the outcomes of one fetch attempt: "ok" a 2xx response, "non2xx" any other
\* response, "network" a connection failure (fetch rejects with a
\* TypeError), "timeout" no response within 5 s
AttemptOutcomes == {"ok", "non2xx", "network", "timeout"}

\* the store's fields, which no attempt of a fetch touches
Untouched ==
    UNCHANGED <<server, cameras, healthStatus, cache, isLoading,
                abortController, healthCheckInterval, notifyTimeout, loads,
                probes, now, lastSeen, known>>

\* fetchWithRetry(url) is called for a list or a config request, with the
\* default retries
StartFetch(kind) ==
    /\ request.result # "pending"
    /\ request' = [kind |-> kind, retries |-> MaxRetries, log |-> <<>>,
                   result |-> "pending"]
    /\ Untouched

\* checkCamerasHealth issues the HEAD request of a probe: a plain fetch with
\* AbortSignal.timeout(5000), outside fetchWithRetry
StartProbeFetch ==
    /\ request.result # "pending"
    /\ request' = [kind |-> "probe", retries |-> 0, log |-> <<>>,
                   result |-> "pending"]
    /\ Untouched

\* an attempt that is made once more when no retry is left;
\* C34_AtMostFourAttempts tells it from the retries > 0 of lines 224 and 231
AfterAttemptOnceMore(req, outcome) ==
    LET log == Append(req.log, outcome)
    IN  IF outcome = "ok"
        THEN [req EXCEPT !.log = log, !.result = "response"]
        ELSE IF outcome = "non2xx"
        THEN (IF req.retries >= 0
              THEN [req EXCEPT !.log = log, !.retries = @ - 1]
              ELSE [req EXCEPT !.log = log, !.result = "response"])
        ELSE IF outcome = "network" /\ req.retries >= 0
        THEN [req EXCEPT !.log = log, !.retries = @ - 1]
        ELSE [req EXCEPT !.log = log, !.result = "thrown"]

\* one attempt of fetchWithRetry settles (lines 218-235). The 5 s timer
\* aborts the attempt's own controller, so a timeout rejects with an
\* AbortError, which line 231 does not retry.
AfterAttempt(req, outcome) ==
    LET log == Append(req.log, outcome)
    IN  IF outcome = "ok"
        THEN [req EXCEPT !.log = log, !.result = "response"]
        ELSE IF outcome = "non2xx"
        THEN (IF req.retries > 0
              THEN [req EXCEPT !.log = log, !.retries = @ - 1]
              ELSE [req EXCEPT !.log = log, !.result = "response"])
        ELSE IF outcome = "network" /\ req.retries > 0
        THEN [req EXCEPT !.log = log, !.retries = @ - 1]
        ELSE [req EXCEPT !.log = log, !.result = "thrown"]

\* an attempt of the list or config request in progress settles
Attempt(outcome) ==
    /\ request.result = "pending"
    /\ request.kind \in {"list", "config"}
    /\ request' = AfterAttempt(request, outcome)
    /\ Untouched

\* the HEAD request of a probe settles: a response goes to lines 373-401,
\* a rejection to the catch of line 403
ProbeAttempt(outcome) ==
    /\ request.result = "pending"
    /\ request.kind = "probe"
    /\ request' = [request EXCEPT
                      !.log = Append(@, outcome),
                      !.result = IF outcome \in {"ok", "non2xx"}
                                 THEN "response" ELSE "thrown"]
    /\ Untouched

\* a step of a fetch, with nothing recorded
Fetching ==
    /\ NoHistory
    /\ NoSubscribers
    /\ NoTimerHistory
    /\ NoCall
    /\ UNCHANGED returned

\* The requests of the store, one at a time, attempt by attempt.
NextFetch ==
    \/ \E kind \in {"list", "config"} : StartFetch(kind) /\ Fetching
    \/ StartProbeFetch /\ Fetching
    \/ \E outcome \in AttemptOutcomes : Attempt(outcome) /\ Fetching
    \/ \E outcome \in AttemptOutcomes : ProbeAttempt(outcome) /\ Fetching

SpecFetch == Init /\ [][NextFetch]_vars

\* ------------------------------------------------------- lastSeen and time
\* a step in which nothing is recorded, the clock and lastSeen apart
Detailed ==
    /\ NoHistory
    /\ NoSubscribers
    /\ NoTimerHistory
    /\ NoCall
    /\ UNCHANGED <<returned, request>>

\* Date.now() has grown
Tick ==
    /\ now < MaxNow
    /\ now' = now + 1
    /\ UNCHANGED <<server, cameras, healthStatus, cache, isLoading,
                   abortController, healthCheckInterval, notifyTimeout,
                   loads, probes, lastSeen, known>>

\* the lastSeen fields after a step of a refresh (line 312): a camera that
\* was in the list the refresh replaced keeps its lastSeen, any other
\* camera of the new list gets Date.now(); 0 stands for a camera not listed
MergedSeen ==
    [id \in DOMAIN lastSeen |->
        IF Find(cameras', id) = 0 THEN 0
        ELSE IF Find(cameras, id) # 0 /\ lastSeen[id] # 0 THEN lastSeen[id]
        ELSE now]

\* the lastSeen fields after a probe has settled (line 435): a status
\* update to online sets the field to Date.now()
SeenAfterProbe(p, outcome) ==
    IF cameras' # cameras /\ AppliedStatus(CapturedId(p), outcome) = "online"
    THEN [lastSeen EXCEPT ![CapturedId(p)] = now]
    ELSE lastSeen

\* a refresh has started: the camera list of that moment is noted
NoteStart ==
    /\ known' = IF Len(loads') > Len(loads) THEN Append(known, cameras)
                ELSE known
    /\ UNCHANGED <<now, lastSeen>>

\* the refresh loads[i] has taken a step
NoteLoadStep(i) ==
    /\ known' = IF Len(loads') < Len(loads)
                THEN SubSeq(known, 1, i - 1) \o SubSeq(known, i + 1, Len(known))
                ELSE known
    /\ lastSeen' = MergedSeen
    /\ UNCHANGED now

\* The store with a consumer that toggles a camera and forces a refresh
\* when at most one is in flight, while time passes.
NextMerge ==
    \/ Len(loads) < 2 /\ LoadCameras(TRUE) /\ NoteStart /\ Detailed
    \/ \E i \in 1..Len(loads), outcome \in ListOutcomes :
          ListResponse(i, outcome) /\ NoteLoadStep(i) /\ Detailed
    \/ \E i \in 1..Len(loads) :
          \E ids \in SUBSET CamIds : \E res \in [ids -> ConfigOutcomes] :
             ChunkSettled(i, res) /\ NoteLoadStep(i) /\ Detailed
    \/ \E id \in CamIds :
          toggleCamera(id) /\ UNCHANGED <<now, lastSeen, known>> /\ Detailed
    \/ Tick /\ Detailed

SpecMerge == Init /\ [][NextMerge]_vars

\* The store with its probe cycles, while time passes.
NextSeen ==
    \/ \E i \in 1..Len(loads), outcome \in ListOutcomes :
          ListResponse(i, outcome) /\ NoteLoadStep(i) /\ Detailed
    \/ \E i \in 1..Len(loads) :
          \E ids \in SUBSET CamIds : \E res \in [ids -> ConfigOutcomes] :
             ChunkSettled(i, res) /\ NoteLoadStep(i) /\ Detailed
    \/ StartHealthCheck /\ UNCHANGED <<now, lastSeen, known>> /\ Detailed
    \/ \E p \in DOMAIN probes, outcome \in ProbeOutcomes :
          /\ ProbeSettle(p, outcome)
          /\ lastSeen' = SeenAfterProbe(p, outcome)
          /\ UNCHANGED <<now, known>>
          /\ Detailed
    \/ Tick /\ Detailed

SpecSeen == Init /\ [][NextSeen]_vars

\* ------------------------------------------------- probe cycles without end
\* a health record whose errorCount stands for every count from MaxErr on:
\* the code compares the count with ErrorThreshold only (lines 397, 409)
Saturated(rec) == [rec EXCEPT !.errorCount = Min(@, MaxErr)]

\* one probe request settles, in a run of any number of probe cycles
ProbeSettleLong(p, outcome) ==
    ProbeWrites(p, outcome, Saturated(HealthRecord(CapturedId(p), outcome)))

\* the interval callback runs again and again (setInterval, lines 356-360)
CyclesGoOn == WF_vars(StartHealthCheck /\ Quiet)

\* every probe request settles: with a response, or thrown by its 5 s
\* timeout at the latest (lines 368-371)
ProbesSettle ==
    WF_vars(\E p \in DOMAIN probes, outcome \in ProbeOutcomes :
               ProbeSettleLong(p, outcome) /\ Quiet)

\* The store after its first refresh, probing for ever.
NextLive ==
    \/ \E i \in 1..Len(loads), outcome \in ListOutcomes :
          ListResponse(i, outcome) /\ Quiet
    \/ \E i \in 1..Len(loads) :
          \E ids \in SUBSET CamIds : \E res \in [ids -> ConfigOutcomes] :
             ChunkSettled(i, res) /\ Quiet
    \/ StartHealthCheck /\ Quiet
    \/ \E p \in DOMAIN probes, outcome \in ProbeOutcomes :
          ProbeSettleLong(p, outcome) /\ Quiet

SpecLive == Init /\ [][NextLive]_vars /\ CyclesGoOn /\ ProbesSettle

\* ------------------------------------------- listeners that call the store
\* what a listener does in its callback besides reading getCameras(): nothing
\* more, a call of the function its subscribe returned, or toggleCamera
Behaviours == {"read", "leave", "toggle"}

\* the listeners in the array ls
Listening(ls) == {ls[k] : k \in 1..Len(ls)}

\* toggleCamera(id) called inside a listener: the camera list it leaves
Toggled(cams, id) ==
    IF Find(cams, id) = 0 THEN cams
    ELSE [cams EXCEPT ![Find(cams, id)].isActive = ~@]

\* this.listeners.forEach(listener => ...) from index k on, for an array that
\* had len elements when forEach was called: forEach visits the indices below
\* len that the array still has, so after a splice the elements that moved
\* down are visited at their new index. st holds the listeners, the camera
\* list, the calls made and the listeners not called since the last change;
\* does[l] is what listener l does when it is called. A toggleCamera inside
\* the callback finds this.notifyTimeout set and arms no timer.
RECURSIVE ForEach(_, _, _, _)
ForEach(st, k, len, does) ==
    IF k > len \/ k > Len(st.listeners) THEN st
    ELSE LET l == st.listeners[k]
             called == [st EXCEPT !.invoked = Append(@, Invocation(l, {})),
                                  !.unnotified = @ \ {l}]
             after ==
                 IF does[l] = "leave"
                 THEN [called EXCEPT !.listeners = Removed(@, l),
                                     !.left = @ \cup {l}]
                 ELSE IF does[l] = "toggle" /\ Find(st.cameras, "cam1") # 0
                 THEN [called EXCEPT
                          !.cameras = Toggled(@, "cam1"),
                          !.changed = TRUE,
                          !.unnotified = Listening(st.listeners) \ {l}]
                 ELSE called
         IN  ForEach(after, k + 1, len, does)

\* the notification timer fires (the callback of lines 664-673) with
\* listeners that may call the store
NotifyRound(does) ==
    LET start == [listeners |-> listeners, cameras |-> cameras,
                  invoked |-> <<>>, unnotified |-> unnotified,
                  left |-> {}, changed |-> FALSE]
        end == ForEach(start, 1, Len(listeners), does)
    IN  /\ notifyTimeout
        /\ notifyTimeout' = FALSE
        /\ listeners' = end.listeners
        /\ cameras' = end.cameras
        /\ cache' = IF end.changed THEN NoCache ELSE cache
        /\ invoked' = end.invoked
        /\ unsubscribed' = unsubscribed \cup end.left
        /\ unnotified' = end.unnotified
        /\ UNCHANGED <<server, healthStatus, isLoading, abortController,
                       healthCheckInterval, loads, probes, subscriptions>>

\* a step of the store outside the timer callback: a change of the camera
\* list leaves every listener to be called
Tracked ==
    /\ unnotified' = IF cameras' # cameras THEN Listening(listeners)
                     ELSE unnotified
    /\ UNCHANGED <<listeners, subscriptions, unsubscribed, invoked, returned,
                   panel>>
    /\ NoHistory
    /\ NoTimerHistory
    /\ NoCall
    /\ NoDetail

\* a step of the timer callback or a subscribe call
Listened ==
    /\ NoHistory
    /\ NoTimerHistory
    /\ NoCall
    /\ NoDetail
    /\ UNCHANGED <<returned, panel>>

\* the timer set by notifyListeners fires (setTimeout, lines 664-673)
TimerFires ==
    WF_vars(\E does \in [1..MaxSubscriptions -> Behaviours] :
               NotifyRound(does) /\ Listened)

\* The store with subscribers whose listeners may call the store: the first
\* refresh, toggles by a consumer, subscribe calls and the notification timer.
NextRounds ==
    \/ \E i \in 1..Len(loads), outcome \in ListOutcomes :
          ListResponse(i, outcome) /\ Tracked
    \/ \E i \in 1..Len(loads) :
          \E ids \in SUBSET CamIds : \E res \in [ids -> ConfigOutcomes] :
             ChunkSettled(i, res) /\ Tracked
    \/ \E id \in CamIds : toggleCamera(id) /\ Tracked
    \/ subscribe /\ Listened /\ UNCHANGED unnotified
    \/ \E does \in [1..MaxSubscriptions -> Behaviours] :
          NotifyRound(does) /\ Listened

SpecRounds == Init /\ [][NextRounds]_vars /\ TimerFires

\* ------------------------------------------------- the cache and the list
\* The store with every step that writes the camera list or the cache entry:
\* refreshes of a consumer (from the cache or forced, one at a time), probe
\* cycles, toggles and the expiry of the entry.
NextCached ==
    \/ \E force \in BOOLEAN : loads = <<>> /\ LoadCameras(force) /\ Quiet
    \/ \E i \in 1..Len(loads), outcome \in ListOutcomes :
          ListResponse(i, outcome) /\ Quiet
    \/ \E i \in 1..Len(loads) :
          \E ids \in SUBSET CamIds : \E res \in [ids -> ConfigOutcomes] :
             ChunkSettled(i, res) /\ Quiet
    \/ StartHealthCheck /\ Quiet
    \/ \E p \in DOMAIN probes, outcome \in ProbeOutcomes :
          ProbeSettle(p, outcome) /\ Quiet
    \/ CacheExpire /\ Quiet
    \/ \E id \in CamIds : toggleCamera(id) /\ Quiet

SpecCached == Init /\ [][NextCached]_vars

\* --------------------------------------------------------------- PanelMode
\* the statuses a player reports to the panel (onStatusChange, onError)
PlayerStatuses == {"loading", "playing", "error", "stalled"}

\* cameras.filter(camera => camera.isActive) as the ids it holds; cams is the
\* list the panel got from getCameras() when it last called setCameras
activeCameras(cams) == {cams[k].id : k \in {j \in 1..Len(cams) : cams[j].isActive}}

\* a step of the panel: no history of the store is recorded
PanelStep ==
    /\ NoHistory
    /\ NoTimerHistory
    /\ NoCall
    /\ NoDetail
    /\ UNCHANGED <<returned, unnotified, unsubscribed>>

\* the subscription effect when the panel mounts (lines 111-138):
\* initializePanelMode() up to the list request of forceRefreshCameraStatus,
\* and the subscribe call
PanelMount ==
    /\ ~panel.mounted
    /\ healthStatus' = [id \in DOMAIN healthStatus |-> NoHealth]
    /\ StartLoad("forceStatus")
    /\ listeners' = Append(listeners, subscriptions + 1)
    /\ subscriptions' = subscriptions + 1
    /\ panel' = [panel EXCEPT !.mounted = TRUE, !.initializing = TRUE]
    /\ UNCHANGED <<server, cameras, cache, healthCheckInterval, notifyTimeout,
                   probes, invoked>>

\* initializePanelMode() after its await (lines 124-126):
\* forceRefreshCameraStatus has resolved, its refresh and the probes of its
\* health check have settled
PanelInitialized ==
    /\ panel.initializing
    /\ \A i \in 1..Len(loads) : loads[i].caller # "forceStatus"
    /\ probes = EmptyBag
    /\ panel' = [panel EXCEPT !.initializing = FALSE, !.cameras = cameras]
    /\ UNCHANGED <<server, cameras, healthStatus, cache, isLoading,
                   abortController, healthCheckInterval, notifyTimeout, loads,
                   probes, listeners, subscriptions, invoked>>

\* the store's timer callback runs; the panel's listener handleCamerasChange
\* (lines 114-118) calls setCameras(cameraStore.getCameras())
PanelNotified ==
    /\ NotifyFire({})
    /\ panel' = IF Len(listeners) > 0 THEN [panel EXCEPT !.cameras = cameras]
                ELSE panel
    /\ UNCHANGED subscriptions

\* the player of a camera the panel renders reports a status:
\* handleCameraStatusChange (lines 195-204) or handleCameraError (206-216)
PlayerEvent(id, status) ==
    /\ id \in activeCameras(panel.cameras)
    /\ panel' = [panel EXCEPT !.cameraStatuses[id] = status]
    /\ UNCHANGED <<server, cameras, healthStatus, cache, isLoading,
                   abortController, healthCheckInterval, notifyTimeout, loads,
                   probes, listeners, subscriptions, invoked>>

\* handleStopAll (lines 218-221), the handler of the Stop All button, which
\* the panel renders while it has active cameras
handleStopAll ==
    /\ activeCameras(panel.cameras) # {}
    /\ stopAllCameras
    /\ panel' = [panel EXCEPT
                    !.cameraStatuses = [id \in DOMAIN @ |-> "none"]]
    /\ UNCHANGED <<listeners, subscriptions, invoked>>

\* streamStats (lines 311-317)
streamStats ==
    [total |-> Cardinality(activeCameras(panel.cameras)),
     playing |-> Cardinality({id \in DOMAIN panel.cameraStatuses :
                                panel.cameraStatuses[id] = "playing"}),
     errors |-> Cardinality({id \in DOMAIN panel.cameraStatuses :
                               panel.cameraStatuses[id] = "error"})]

\* The store with two cameras and the panel: the refreshes of the constructor
\* and of the panel with their probes, the notification timer, the players'
\* reports and Stop All.
NextPanel ==
    \/ \E i \in 1..Len(loads), outcome \in ListOutcomes :
          ListResponse(i, outcome) /\ Quiet
    \/ \E i \in 1..Len(loads) :
          \E ids \in SUBSET PairIds : \E res \in [ids -> ConfigOutcomes] :
             ChunkSettled(i, res) /\ Quiet
    \/ \E p \in DOMAIN probes, outcome \in ProbeOutcomes :
          ProbeSettle(p, outcome) /\ Quiet
    \/ PanelMount /\ PanelStep
    \/ PanelInitialized /\ PanelStep
    \/ PanelNotified /\ PanelStep
    \/ \E id \in PairIds, status \in PlayerStatuses :
          PlayerEvent(id, status) /\ PanelStep
    \/ handleStopAll /\ PanelStep

SpecPanel == InitPair /\ [][NextPanel]_vars

\* ------------------------------------------------------------------ claims
\* the status getCameras() reports for id
Status(id) == StatusOf(cameras, id)

\* the camera with this id is in getCameras()
Known(id) == Find(cameras, id) # 0

\* the refresh loads[i] takes a step
LoadStep(i) ==
    \/ \E outcome \in ListOutcomes : ListResponse(i, outcome)
    \/ \E ids \in SUBSET CamIds : \E res \in [ids -> ConfigOutcomes] :
          ChunkSettled(i, res)

\* C1: a probe outcome takes a camera from online to error or offline only
\* when it is at least the third hard-failure in a row since the last
\* success, 404s not counted. (The claim covers refreshes too; this is its
\* case for probe steps.)
C1_OnlineLeftOnlyAfterThreeHardFailures ==
    [][\A p \in DOMAIN probes, outcome \in ProbeOutcomes :
          LET id == CapturedId(p)
          IN  (/\ ProbeSettle(p, outcome)
               /\ Status(id) = "online"
               /\ Status(id)' \in {"error", "offline"})
              => hardRun'[id] >= ErrorThreshold]_vars

\* C2: when a probe of a camera that is in the list settles with a 2xx
\* response, the camera's status is online right afterwards.
C2_SuccessMakesOnline ==
    [][\A p \in DOMAIN probes :
          LET id == CapturedId(p)
          IN  (ProbeSettle(p, "ok") /\ Known(id))
              => Status(id)' = "online"]_vars

\* C3: the third probe in a row of a listed camera that throws (no other
\* outcome and no clearing of the health history in between) leaves the
\* camera's status at error, and a probe that succeeds right after such a
\* run leaves status online and errorCount 0.
C3_ThreeThrowsThenSuccess ==
    [][\A p \in DOMAIN probes :
          LET id == CapturedId(p)
          IN  /\ (/\ ProbeSettle(p, "throw")
                  /\ throwRun'[id] = ErrorThreshold
                  /\ Known(id))
                 => Status(id)' = "error"
              /\ (/\ ProbeSettle(p, "ok")
                  /\ throwRun[id] = ErrorThreshold
                  /\ Known(id))
                 => /\ Status(id)' = "online"
                    /\ healthStatus'[id].errorCount = 0]_vars

\* C4: a health record's errorCount grows only by a hard-failure outcome of
\* a probe of that camera, a 404 leaves it as it is and a success sets it
\* to 0.
C4_ErrorCountOnlyHardFailures ==
    [][/\ \A p \in DOMAIN probes :
             LET id == CapturedId(p)
             IN  /\ ProbeSettle(p, "notfound")
                    => healthStatus'[id].errorCount
                       = healthStatus[id].errorCount
                 /\ ProbeSettle(p, "ok") => healthStatus'[id].errorCount = 0
       /\ \A id \in CamIds :
             healthStatus'[id].errorCount > healthStatus[id].errorCount
             => \E p \in DOMAIN probes, outcome \in {"other", "throw"} :
                   CapturedId(p) = id /\ ProbeSettle(p, outcome)]_vars

\* C5: after a 404 for a listed camera, a camera that was online (in the
\* list and in its health record) is online, and a camera that was not
\* online (in the list and in its health record) is checking.
C5_NotFoundHoldsOnlineElseChecking ==
    [][\A p \in DOMAIN probes :
          LET id == CapturedId(p)
          IN  (ProbeSettle(p, "notfound") /\ Known(id))
              => /\ (Status(id) = "online"
                     /\ healthStatus[id].status = "online")
                    => Status(id)' = "online"
                 /\ (Status(id) # "online"
                     /\ healthStatus[id].status # "online")
                    => Status(id)' = "checking"]_vars

ConfigFailed(i, id) ==
    \E ids \in SUBSET CamIds : \E res \in [ids -> ConfigOutcomes] :
       /\ id \in ids
       /\ res[id] = "error"
       /\ ChunkSettled(i, res)

C7_BelowThresholdHolds ==
    [][\A p \in DOMAIN probes, outcome \in {"other", "throw"} :
          LET id == CapturedId(p)
          IN  (/\ ProbeSettle(p, outcome)
               /\ ~p.stale
               /\ healthStatus'[id].errorCount < ErrorThreshold)
              => /\ (Status(id) = "online"
                     /\ healthStatus[id].status = "online")
                    => Status(id)' = "online"
                 /\ (Status(id) # "online"
                     /\ healthStatus[id].status # "online")
                    => Status(id)' = "checking"]_vars

\* the camera list a probe leaves (lines 395-401 and 422-424)
CamerasAfter(p, outcome) ==
    IF StatusDiffers(p, outcome)
    THEN updateCameraStatus(CapturedId(p),
                            AppliedStatus(CapturedId(p), outcome),
                            HealthRecord(CapturedId(p), outcome))
    ELSE cameras

Ids(cams) == {cams[k].id : k \in 1..Len(cams)}

\* C9: a refresh whose list request fails (a network error, a timeout, an
\* unparsable body or a non-2xx response) leaves the set of cameras as it was.
C9_FailedListKeepsCameras ==
    [][\A i \in 1..Len(loads), outcome \in {"non2xx", "error"} :
          ListResponse(i, outcome) => Ids(cameras') = Ids(cameras)]_vars

\* C10: a refresh that has been superseded by a later one writes neither the
\* camera list nor the cache.
C10_SupersededNeverWrites ==
    [][\A i \in 1..Len(loads) :
          (Superseded(i) /\ LoadStep(i))
          => (cameras' = cameras /\ cache' = cache)]_vars

\* the fields of the store and the requests it has in flight
store == <<server, cameras, healthStatus, cache, isLoading, abortController,
           healthCheckInterval, notifyTimeout, loads, probes>>

\* C11: a call loadCameras(false) made while a refresh is in flight issues
\* no request and changes nothing in the store.
C11_SecondCallIsNoOp ==
    [][(LoadCameras(FALSE) /\ Len(loads) > 0) => UNCHANGED store]_vars

\* C12: while the cache holds an unexpired camera list, that list is what
\* getCameras() returns, and a call loadCameras(false) then issues no list
\* request; a call loadCameras(false) that finds no unexpired entry (and no
\* refresh flagged as loading) issues the list request and leaves the
\* camera list alone; every call loadCameras(true) issues the list request.
C12_CacheShortCircuits ==
    /\ []((cache.present /\ ~cache.expired) => cache.data = cameras)
    /\ [][/\ (LoadCameras(FALSE) /\ cache.present /\ ~cache.expired)
             => (loads' = loads /\ cameras' = cache.data)
          /\ (/\ LoadCameras(FALSE)
              /\ ~isLoading
              /\ ~(cache.present /\ ~cache.expired))
             => /\ loads' = Append(loads, ListRequest("load"))
                /\ cameras' = cameras
                /\ ~cache'.present
          /\ LoadCameras(TRUE)
             => loads' = Append(loads, ListRequest("load"))]_vars

\* C12 witness: a refresh has cached a camera list that has not expired, and
\* nothing is loading, so that a call loadCameras(false) is served from it
C12_Witness ==
    /\ cache.present
    /\ ~cache.expired
    /\ ~isLoading
    /\ Len(cache.data) > 0
    /\ loads = <<>>

\* the refresh loads[i], started by forceRefreshCameraStatus, takes its last
\* step, and the call goes on to checkCamerasHealth with cameras to probe
ForcedCycleStarts(i) ==
    /\ loads[i].caller = "forceStatus"
    /\ LoadStep(i)
    /\ Len(loads') < Len(loads)
    /\ Len(cameras') > 0

\* C14: when a forceRefreshCameraStatus call starts its probe cycle, the
\* health-record map has no entries.
C14_ForcedCycleFromEmptyHealth ==
    [][\A i \in 1..Len(loads) :
          ForcedCycleStarts(i) => healthStatus = [id \in CamIds |-> NoHealth]]_vars

\* C15: when the refresh of a forceRefreshCameraStatus call has finished,
\* every camera in the list has status checking.
C15_ForcedRefreshLeavesChecking ==
    [][\A i \in 1..Len(loads) :
          (/\ loads[i].caller = "forceStatus"
           /\ LoadStep(i)
           /\ Len(loads') < Len(loads))
          => \A k \in 1..Len(cameras') : cameras'[k].status = "checking"]_vars

\* C13: the completion of a probe, whatever its outcome, leaves the set of
\* listed cameras as it was; a camera that was deleted or dropped by a
\* refresh while the probe was in flight is not listed again.
C13_ProbeNeverRestoresCamera ==
    [][\A p \in DOMAIN probes, outcome \in ProbeOutcomes :
          ProbeSettle(p, outcome) => Ids(cameras') = Ids(cameras)]_vars

\* C13 witness: the camera has been deleted on the server and is no longer
\* listed, a probe of it has written its health record again and another
\* probe of it is still in flight
C13_Witness ==
    /\ server = <<>>
    /\ Status("cam1") = "absent"
    /\ healthStatus["cam1"].status # "none"
    /\ \E p \in DOMAIN probes : p.stale /\ p.id = "cam1"

\* the toggle operations
ToggleCalls ==
    {"toggleCamera", "toggleMultipleCameras", "stopAllCameras",
     "startAllOnlineCameras"}

\* a step that issues no request and leaves every camera's status and every
\* health record as they were
LocalStep ==
    /\ loads' = loads
    /\ probes' = probes
    /\ server' = server
    /\ healthStatus' = healthStatus
    /\ Len(cameras') = Len(cameras)
    /\ \A k \in 1..Len(cameras) :
          /\ cameras'[k].id = cameras[k].id
          /\ cameras'[k].status = cameras[k].status

\* C19 as claimed: every call of a toggle operation is a local step, and
\* after it the cache holds no camera list and a notification is scheduled.
C19_EveryToggleInvalidatesAndNotifies ==
    /\ [](lastCall \in ToggleCalls => (~cache.present /\ notifyTimeout))
    /\ [][lastCall' \in ToggleCalls => LocalStep]_vars

\* what a toggle call does to the cache and the timer: it removes the cached
\* list and schedules a notification when it found a camera to change, and
\* leaves both alone when it did not
CacheAndTimer(found) ==
    IF found
    THEN ~cache'.present /\ notifyTimeout'
    ELSE cache' = cache /\ notifyTimeout' = notifyTimeout

\* C19 amended: every call of a toggle operation is a local step; it removes
\* the cached list and schedules a notification exactly when it found a
\* camera to change (toggleCamera: the id is listed; toggleMultipleCameras:
\* one of the ids is listed; stopAllCameras: a camera is active;
\* startAllOnlineCameras: a camera is online and inactive).
C19_TogglesAreLocal ==
    [][/\ lastCall' \in ToggleCalls => LocalStep
       /\ \A id \in CamIds :
             (toggleCamera(id) /\ lastCall' = "toggleCamera")
             => CacheAndTimer(Known(id))
       /\ \A ids \in IdLists :
             (toggleMultipleCameras(ids) /\ lastCall' = "toggleMultipleCameras")
             => CacheAndTimer(\E k \in 1..Len(ids) : Known(ids[k]))
       /\ lastCall' = "stopAllCameras"
          => CacheAndTimer(\E k \in 1..Len(cameras) : cameras[k].isActive)
       /\ lastCall' = "startAllOnlineCameras"
          => CacheAndTimer(\E k \in 1..Len(cameras) :
                              /\ cameras[k].status = "online"
                              /\ ~cameras[k].isActive)]_vars

\* C19 witness: startAllOnlineCameras has been called with a camera listed
\* that is not online, and the cached list is still there
C19_Witness ==
    /\ lastCall = "startAllOnlineCameras"
    /\ Len(cameras) > 0
    /\ cache.present

\* C20: an addCamera or removeCamera call resolves to true or false and to
\* nothing else; when its POST ends with a non-2xx response or a network
\* error it resolves to false and leaves the camera list and the health
\* records as they were; it resolves to true only when the refresh it
\* started has returned.
C20_MutationsResolveToBoolean ==
    /\ [](returned \in {"none", "true", "false"})
    /\ [][/\ \A name \in CamIds, outcome \in {"non2xx", "error"} :
             (\/ addCamera(name, outcome)
              \/ removeCamera(name, outcome))
             => (returned' \in {returned, "false"}
                 /\ cameras' = cameras
                 /\ healthStatus' = healthStatus)
          /\ (returned' = "true" /\ returned # "true")
             => \E i \in 1..Len(loads) :
                   /\ loads[i].caller = "mutation"
                   /\ LoadStep(i)
                   /\ Len(loads') < Len(loads)]_vars

\* C20 witness: a call has resolved to false, and the camera is still on the
\* server and in the list
C20_Witness ==
    /\ returned = "false"
    /\ server # <<>>
    /\ Known("cam1")
    /\ loads = <<>>

\* the listeners a round of the timer callback has called, in order
ListenersOf(round) == [k \in 1..Len(round) |-> round[k].listener]

\* the timer callback runs in this step
Fires == timers' < timers

C17_ThrowingListenerIsIsolated ==
    [][\A throwers \in SUBSET (1..MaxSubscriptions) :
          (/\ NotifyFire(throwers)
           /\ Fires
           /\ \E k \in 1..Len(listeners) : listeners[k] \in throwers)
          => /\ \A k \in 1..Len(listeners) :
                   \E n \in 1..Len(invoked') :
                      invoked'[n].listener = listeners[k]
             /\ ~notifyTimeout']_vars

\* C17 witness: the first of two listeners threw in the last round, the
\* second was called after it, and a timer has been set since
C17_Witness ==
    /\ Len(invoked) = 2
    /\ invoked[1].threw
    /\ ~invoked[2].threw
    /\ notifyTimeout
    /\ coalesced = 0

C21_AddedCameraIsListed ==
    [][\A i \in 1..Len(loads) :
          (/\ loads[i].caller = "mutation"
           /\ LoadStep(i)
           /\ Len(loads') < Len(loads)
           /\ server' = <<"cam1">>)
          => Find(cameras', "cam1") # 0]_vars

\* the refresh loads[i] gets the last of its config groups, with the outcome
\* res[name] for each path of the group
Applies(i, res) == ChunkSettled(i, res) /\ Len(loads') < Len(loads)

\* the ids of getCameras(), in order
IdSeq(cams) == [k \in 1..Len(cams) |-> cams[k].id]

\* C22: in a refresh whose list request succeeded, whatever the outcomes of
\* the config requests, every listed path yields exactly one camera, in the
\* order of the list, and the camera of a path whose config request threw
\* is the one built from the synthetic record (status error).
C22_EveryListedPathYieldsACamera ==
    [][\A i \in 1..Len(loads) :
          \A ids \in SUBSET PairIds : \A res \in [ids -> ConfigOutcomes] :
             Applies(i, res)
             => /\ IdSeq(cameras') = loads[i].items
                /\ \A id \in ids :
                      res[id] = "error" => StatusOf(cameras', id) = "error"]_vars

\* C24: when a refresh whose list request succeeded has finished, the ids
\* in getCameras() are exactly the path names of its list response.
C24_IdsAreTheListedPaths ==
    [][\A i \in 1..Len(loads) :
          /\ (ListResponse(i, "ok") /\ Len(loads') < Len(loads))
             => Ids(cameras') = {server[k] : k \in 1..Len(server)}
          /\ \A ids \in SUBSET PairIds : \A res \in [ids -> ConfigOutcomes] :
                Applies(i, res)
                => Ids(cameras')
                   = {loads[i].items[k] : k \in 1..Len(loads[i].items)}]_vars

\* C25: no two cameras in getCameras() have the same id.
C25_IdsAreUnique ==
    \A j, k \in 1..Len(cameras) : cameras[j].id = cameras[k].id => j = k

\* the isActive getCameras() reports for id in the list cams
ActiveOf(cams, id) == cams[Find(cams, id)].isActive

C30_LastSeenIsLastSuccess ==
    [][/\ \A p \in DOMAIN probes :
             (ProbeSettle(p, "ok") /\ Known(CapturedId(p)))
             => lastSeen'[CapturedId(p)] = now
       /\ \A p \in DOMAIN probes, outcome \in ProbeOutcomes \ {"ok"} :
             ProbeSettle(p, outcome) => lastSeen' = lastSeen
       /\ \A id \in DOMAIN lastSeen :
             (Known(id) /\ Find(cameras', id) # 0)
             => lastSeen'[id] >= lastSeen[id]]_vars

\* C26: when a probe settles, whatever its outcome, the health record and
\* the list entry of every other camera are as they were, and every other
\* probe request is still in flight; a probe in flight can always settle
\* with a success.
C26_ProbesAreIndependent ==
    /\ [](\A q \in DOMAIN probes : ENABLED (ProbeSettle(q, "ok")))
    /\ [][\A p \in DOMAIN probes, outcome \in ProbeOutcomes :
             ProbeSettle(p, outcome)
             => /\ \A id \in PairIds \ {CapturedId(p)} :
                      healthStatus'[id] = healthStatus[id]
                /\ Len(cameras') = Len(cameras)
                /\ \A k \in 1..Len(cameras) :
                      cameras[k].id # CapturedId(p) => cameras'[k] = cameras[k]
                /\ probes' = probes (-) SetToBag({p})]_vars

\* C26 witness: the probes of one cycle have settled with different
\* outcomes: cam1 has failed up to the threshold and is in status error,
\* cam2 is online with errorCount 0
C26_Witness ==
    /\ Status("cam1") = "error"
    /\ healthStatus["cam1"].errorCount >= ErrorThreshold
    /\ Status("cam2") = "online"
    /\ healthStatus["cam2"] = [status |-> "online", errorCount |-> 0]

\* C27: at most ChunkSize config requests are outstanding at any time, and
\* the requests a refresh is waiting for are those of one group: the paths
\* after the groups that have settled, up to ChunkSize of them.
C27_AtMostFiveConfigRequests ==
    /\ Outstanding(loads) <= ChunkSize
    /\ \A i \in 1..Len(loads) :
          /\ Cardinality(Group(loads[i])) <= ChunkSize
          /\ Len(loads[i].configs) = loads[i].done

\* an attempt of the request in progress has settled in this step
Settles == Len(request'.log) = Len(request.log) + 1

\* C28: when an attempt of a list, config or probe request fails with a
\* timeout or a connection failure and fewer than MaxRetries retries have
\* been made, the request is attempted again.
C28_NetworkFailuresAreRetried ==
    [][(/\ Settles
        /\ request'.log[Len(request'.log)] \in {"network", "timeout"}
        /\ Len(request.log) < MaxRetries)
       => request'.result = "pending"]_vars

\* C29: a step in which an upstream call fails leaves getCameras() with
\* the last-known cameras: a failed list request leaves the list as it was,
\* a refresh with a failed config request drops no camera, and a probe that
\* does not succeed leaves the set of cameras as it was.
C29_FailuresKeepLastKnownState ==
    [][/\ \A i \in 1..Len(loads), outcome \in {"non2xx", "error"} :
             ListResponse(i, outcome) => cameras' = cameras
       /\ \A i \in 1..Len(loads) :
             \A ids \in SUBSET CamIds : \A res \in [ids -> ConfigOutcomes] :
                (ChunkSettled(i, res) /\ \E id \in ids : res[id] # "ok")
                => Ids(cameras) \subseteq Ids(cameras')
       /\ \A p \in DOMAIN probes, outcome \in ProbeOutcomes \ {"ok"} :
             ProbeSettle(p, outcome) => Ids(cameras') = Ids(cameras)]_vars

\* a probe of a camera has got a 2xx response in this step
ProbeSucceeds ==
    \E p \in DOMAIN probes : ProbeSettleLong(p, "ok") /\ Quiet

\* C31: with the probe cycles going on and every probe settling, a camera
\* reported online whose probes from some point on never succeed again (404,
\* another non-2xx response, or a thrown request) is eventually reported
\* with a status other than online.
C31_UnreachableCameraLeavesOnline ==
    \/ []<><<ProbeSucceeds>>_vars
    \/ (Status("cam1") = "online" ~> Status("cam1") # "online")

\* the calls of listener l in the sequence inv
CallsOf(inv, l) == Len(SelectSeq(inv, LAMBDA c : c.listener = l))

\* the timer callback runs in this step and calls listener l
Calls(l) ==
    /\ \E does \in [1..MaxSubscriptions -> Behaviours] : NotifyRound(does)
    /\ CallsOf(invoked', l) > 0

\* C32: every change of the camera list (status, isActive, membership) is
\* eventually followed by a call of every listener subscribed then, made
\* after the change, unless the listener is unsubscribed first; this includes
\* a change a listener makes while the timer callback is calling the
\* listeners. Put per listener: it is called again and again, or from some
\* point on no change is left that it has not been called after.
C32_EveryChangeReachesEveryListener ==
    \A l \in 1..MaxSubscriptions :
       \/ []<><<Calls(l)>>_vars
       \/ <>[](l \notin unnotified \/ l \in unsubscribed)

\* C33: the timer callback calls exactly once every listener that is
\* subscribed when it starts and is not unsubscribed while it runs, also
\* when a listener unsubscribes itself inside its callback.
C33_RoundCallsEachListenerOnce ==
    [][(\E does \in [1..MaxSubscriptions -> Behaviours] : NotifyRound(does))
       => \A l \in Listening(listeners) :
             l \in Listening(listeners') => CallsOf(invoked', l) = 1]_vars

\* the outcome of the last attempt of the request followed
LastOutcome == request.log[Len(request.log)]

\* C34: a fetchWithRetry call makes at most 1 + MaxRetries attempts whatever
\* their outcomes are, and has ended when the last of them has settled; it
\* ends with the response of its last attempt or with the error its last
\* attempt threw, and makes no attempt after a 2xx response.
C34_AtMostFourAttempts ==
    request.kind \in {"list", "config"} =>
       /\ Len(request.log) <= 1 + MaxRetries
       /\ Len(request.log) = 1 + MaxRetries => request.result # "pending"
       /\ request.result = "pending" =>
             request.retries = MaxRetries - Len(request.log)
       /\ request.result = "response" => LastOutcome \in {"ok", "non2xx"}
       /\ request.result = "thrown" => LastOutcome \in {"network", "timeout"}
       /\ \A k \in 1..(Len(request.log) - 1) : request.log[k] # "ok"

\* a config request that has used every attempt and ended with the non-2xx
\* response of the last
C34_Witness ==
    /\ request.kind = "config"
    /\ request.log = <<"network", "non2xx", "network", "non2xx">>
    /\ request.result = "response"

\* C35: every camera in getCameras() that has a health record is reported
\* with the status of its health record.
C35_StatusEqualsHealthRecord ==
    \A k \in 1..Len(cameras) :
       healthStatus[cameras[k].id].status # "none"
       => cameras[k].status = healthStatus[cameras[k].id].status

\* C36: every key of the health-record map is the id of a camera in the
\* camera list.
C36_HealthRecordsOfListedCameras ==
    \A id \in CamIds : healthStatus[id].status # "none" => Known(id)

\* C37: whenever the cache holds an entry for the camera list, the data of
\* the entry is the store's camera list (the same cameras with the same
\* status and isActive), so a cache hit does not bring back an older list.
C37_CacheEntryIsTheCameraList ==
    cache.present => cache.data = cameras

\* the cache holds the list of a refresh that was made after a probe had
\* changed the status of cam1 (and with it dropped the entry of before)
C37_Witness ==
    /\ cache.present
    /\ ~cache.expired
    /\ loads = <<>>
    /\ Status("cam1") = "online"

\* C38: the isLoading flag is true exactly when a refresh is in flight
\* (between its start and its finally block).
C38_LoadingFlagFollowsRefreshes ==
    isLoading <=> Len(loads) > 0

\* C39: whenever the panel shows its stream statistics (it has an active
\* camera), playing + errors <= total, total being the number of active
\* cameras: the status entries of cameras that are not active or not listed
\* any more are not counted.
C39_StatsWithinTotal ==
    streamStats.total > 0
    => streamStats.playing + streamStats.errors <= streamStats.total

====
